---- MODULE Spec2Model ----
(***************************************************************************)
(* Model of app.py: the two Flask endpoints generate_local_biz_captions    *)
(* and generate_artisan_description, the two prompt builders and the       *)
(* one-time configuration of the Gemini model.                             *)
(*                                                                         *)
(* Python strings are sequences of one-character strings, so that split,   *)
(* strip, replace, title and int are computed character by character.      *)
(* JSON values are records [t, s, n]: t the type tag, s the characters of  *)
(* a string, n the number of an int (or 0/1 of a bool).                    *)
(***************************************************************************)
EXTENDS Integers, Sequences, FiniteSets, TLC

\* Longest generated text, in characters.
MaxLen == 5
\* Largest numVariations a request asks for (and smallest, negated).
MaxCount == 3
\* Longest list of safety ratings of a response.
MaxRatings == 2

Min(a, b) == IF a <= b THEN a ELSE b
Max(a, b) == IF a >= b THEN a ELSE b

(***************************************************************************)
(* Python str and list primitives                                          *)
(***************************************************************************)
NL == "\n"
Whitespace == {" ", "\t", "\n", "\r"}

Lowers == <<"a","b","c","d","e","f","g","h","i","j","k","l","m",
            "n","o","p","q","r","s","t","u","v","w","x","y","z">>
Uppers == <<"A","B","C","D","E","F","G","H","I","J","K","L","M",
            "N","O","P","Q","R","S","T","U","V","W","X","Y","Z">>
Digits == <<"0","1","2","3","4","5","6","7","8","9">>

IndexIn(c, tbl) == IF \E i \in 1..Len(tbl) : tbl[i] = c
                   THEN CHOOSE i \in 1..Len(tbl) : tbl[i] = c
                   ELSE 0
IsLower(c) == IndexIn(c, Lowers) > 0
IsUpper(c) == IndexIn(c, Uppers) > 0
IsCased(c) == IsLower(c) \/ IsUpper(c)
ToUpper(c) == IF IsLower(c) THEN Uppers[IndexIn(c, Lowers)] ELSE c
ToLower(c) == IF IsUpper(c) THEN Lowers[IndexIn(c, Uppers)] ELSE c

\* str.split('\n'): the pieces between the newlines, one more than newlines.
RECURSIVE SplitLines(_)
SplitLines(s) ==
    IF \A i \in 1..Len(s) : s[i] # NL
    THEN <<s>>
    ELSE LET i == CHOOSE k \in 1..Len(s) :
                     s[k] = NL /\ \A j \in 1..(k - 1) : s[j] # NL
         IN  <<SubSeq(s, 1, i - 1)>> \o SplitLines(SubSeq(s, i + 1, Len(s)))

\* str.strip(): leading and trailing whitespace removed.
RECURSIVE LStrip(_)
LStrip(s) == IF s # <<>> /\ Head(s) \in Whitespace THEN LStrip(Tail(s)) ELSE s
RECURSIVE RStrip(_)
RStrip(s) == IF s # <<>> /\ s[Len(s)] \in Whitespace
             THEN RStrip(SubSeq(s, 1, Len(s) - 1)) ELSE s
Strip(s) == RStrip(LStrip(s))

\* str.replace('_', ' ')
ReplaceUnderscore(s) == [i \in 1..Len(s) |-> IF s[i] = "_" THEN " " ELSE s[i]]

\* str.title(): a cased character is upper-cased when the character before it
\* is not cased, and lower-cased otherwise.
Title(s) == [i \in 1..Len(s) |->
               IF i > 1 /\ IsCased(s[i - 1]) THEN ToLower(s[i]) ELSE ToUpper(s[i])]

\* list[:n], n of either sign.
SliceTo(seq, n) == IF n >= 0 THEN SubSeq(seq, 1, Min(n, Len(seq)))
                   ELSE SubSeq(seq, 1, Max(Len(seq) + n, 0))

\* [c.strip() for c in text.split('\n') if c.strip()]
StripAll(pieces) == [i \in 1..Len(pieces) |-> Strip(pieces[i])]
NonEmpty(p) == p # <<>>
ParseLines(text) == SelectSeq(StripAll(SplitLines(text)), NonEmpty)

(***************************************************************************)
(* JSON values of a request body and Python's conversions of them          *)
(***************************************************************************)
JStr(s) == [t |-> "str", s |-> s, n |-> 0]
JInt(n) == [t |-> "int", s |-> <<>>, n |-> n]
JBool(b) == [t |-> "bool", s |-> <<>>, n |-> IF b THEN 1 ELSE 0]
JNull == [t |-> "null", s |-> <<>>, n |-> 0]
Absent == [t |-> "absent", s |-> <<>>, n |-> 0]

\* bool(value)
Truthy(v) == CASE v.t = "str" -> v.s # <<>>
               [] v.t = "int" -> v.n # 0
               [] v.t = "bool" -> v.n = 1
               [] OTHER -> FALSE

RECURSIVE NatToStr(_)
NatToStr(n) == IF n < 10 THEN <<Digits[n + 1]>>
               ELSE NatToStr(n \div 10) \o <<Digits[(n % 10) + 1]>>

\* str(value), as an f-string inserts it
PyStr(v) == CASE v.t = "str" -> v.s
              [] v.t = "int" -> IF v.n < 0 THEN <<"-">> \o NatToStr(0 - v.n)
                                ELSE NatToStr(v.n)
              [] v.t = "bool" -> IF v.n = 1 THEN <<"T","r","u","e">>
                                 ELSE <<"F","a","l","s","e">>
              [] OTHER -> <<"N","o","n","e">>

IsDigit(c) == IndexIn(c, Digits) > 0
NotUnderscore(c) == c # "_"

RECURSIVE DigitsValue(_)
DigitsValue(ds) == IF ds = <<>> THEN 0
                   ELSE 10 * DigitsValue(SubSeq(ds, 1, Len(ds) - 1))
                        + (IndexIn(ds[Len(ds)], Digits) - 1)

\* The digits of an int literal: digits, single underscores between them.
WellFormedDigits(b) ==
    /\ b # <<>>
    /\ \A i \in 1..Len(b) : IsDigit(b[i]) \/ b[i] = "_"
    /\ IsDigit(b[1]) /\ IsDigit(b[Len(b)])
    /\ \A i \in 1..(Len(b) - 1) : ~(b[i] = "_" /\ b[i + 1] = "_")

Ok(n) == [ok |-> TRUE, n |-> n, exc |-> "none"]
Raise(e) == [ok |-> FALSE, n |-> 0, exc |-> e]

\* int(text): whitespace stripped, an optional sign, then the digits.
IntOfStr(s) ==
    LET b == Strip(s)
        signed == b # <<>> /\ b[1] \in {"+", "-"}
        body == IF signed THEN Tail(b) ELSE b
        mag == DigitsValue(SelectSeq(body, NotUnderscore))
    IN  IF ~WellFormedDigits(body) THEN Raise("ValueError")
        ELSE IF signed /\ b[1] = "-" THEN Ok(0 - mag) ELSE Ok(mag)

\* int(value)
PyInt(v) == CASE v.t = "int" -> Ok(v.n)
              [] v.t = "bool" -> Ok(v.n)
              [] v.t = "str" -> IntOfStr(v.s)
              [] OTHER -> Raise("TypeError")

(***************************************************************************)
(* Request field maps: every key of both forms, Absent when not sent       *)
(***************************************************************************)
Keys == {"businessName", "businessType", "postType", "keyMessage", "tone",
         "callToAction", "includeEmojis", "numVariations",
         "creatorName", "productName", "productCategory", "keyMaterials",
         "creationProcess", "inspiration", "uniqueSellingPoints", "artisanTone"}

NoFields == [k \in Keys |-> Absent]

\* Faulty variant: data.get(key) without the default.
Get_NoDefault(data, key, default) ==
    IF data[key].t = "absent" THEN JNull ELSE data[key]

\* data.get(key, default)
Get(data, key, default) == IF data[key].t = "absent" THEN default ELSE data[key]
\* data.get(key)
GetOrNone(data, key) == Get(data, key, JNull)

(***************************************************************************)
(* String literals of the prompt builders                                  *)
(***************************************************************************)
OurBusiness ==
    <<"O","u","r"," ","b","u","s","i","n","e","s","s">>
LocalBusiness ==
    <<"l","o","c","a","l"," ","b","u","s","i","n","e","s","s">>
GeneralAnnouncement ==
    <<"g","e","n","e","r","a","l"," ","a","n","n","o","u","n","c","e","m","e",
      "n","t">>
SomethingExciting ==
    <<"s","o","m","e","t","h","i","n","g"," ","e","x","c","i","t","i","n","g",
      "!">>
FriendlyCasual ==
    <<"f","r","i","e","n","d","l","y"," ","&"," ","c","a","s","u","a","l">>
NoSpecificCta ==
    <<"n","o"," ","s","p","e","c","i","f","i","c"," ","c","t","a">>
CustomCta ==
    <<"c","u","s","t","o","m","_","c","t","a">>
On ==
    <<"o","n">>
ThisUniqueItem ==
    <<"t","h","i","s"," ","u","n","i","q","u","e"," ","i","t","e","m">>
HandmadeProduct ==
    <<"h","a","n","d","m","a","d","e"," ","p","r","o","d","u","c","t">>
QualityMaterials ==
    <<"q","u","a","l","i","t","y"," ","m","a","t","e","r","i","a","l","s">>
ItIsSpecial ==
    <<"i","t"," ","i","s"," ","s","p","e","c","i","a","l">>
StoryDrivenEvocative ==
    <<"s","t","o","r","y","_","d","r","i","v","e","n","_","e","v","o","c","a",
      "t","i","v","e">>

\* cta_text_map: <<code, phrase>>
cta_text_map == <<
    <<<<"v","i","s","i","t","_","u","s">>,
      <<"V","i","s","i","t"," ","U","s"," ","T","o","d","a","y","!">>>>,
    <<<<"s","h","o","p","_","n","o","w","_","o","n","l","i","n","e">>,
      <<"S","h","o","p"," ","N","o","w","/","O","r","d","e","r"," ","O","n",
        "l","i","n","e","!">>>>,
    <<<<"b","o","o","k","_","a","p","p","o","i","n","t","m","e","n","t","_","n",
      "o","w">>,
      <<"B","o","o","k"," ","Y","o","u","r"," ","A","p","p","o","i","n","t",
        "m","e","n","t"," ","N","o","w","!">>>>,
    <<<<"l","e","a","r","n","_","m","o","r","e">>,
      <<"L","e","a","r","n"," ","M","o","r","e"," ","(","l","i","n","k"," ",
        "i","n"," ","b","i","o","/","D","M"," ","u","s",")","!">>>>,
    <<<<"t","a","g","_","f","r","i","e","n","d">>,
      <<"T","a","g"," ","a"," ","F","r","i","e","n","d"," ","W","h","o"," ",
        "N","e","e","d","s"," ","T","h","i","s","!">>>>,
    <<<<"c","o","n","t","a","c","t","_","u","s">>,
      <<"C","o","n","t","a","c","t"," ","U","s"," ","f","o","r"," ","D","e",
        "t","a","i","l","s","!">>>>
>>

InCtaMap(code) == \E i \in 1..Len(cta_text_map) : cta_text_map[i][1] = code
CtaPhrase(code) == cta_text_map[CHOOSE i \in 1..Len(cta_text_map) :
                                    cta_text_map[i][1] = code][2]

\* Faulty variant: the fallback phrase is not title-cased.
CtaText_NoTitle(code) == IF InCtaMap(code) THEN CtaPhrase(code)
                         ELSE ReplaceUnderscore(code) \o <<"!">>

\* cta_text_map.get(call_to_action, call_to_action.replace('_', ' ').title() + "!")
CtaText(code) == IF InCtaMap(code) THEN CtaPhrase(code)
                 ELSE Title(ReplaceUnderscore(code)) \o <<"!">>

\* One line of a prompt: the f-string template it comes from (id), the texts
\* the template inserts (arg, arg2) and the number it inserts (n).  The
\* prompt is the lines joined by newlines.
Line2(id, arg, arg2, n) == [id |-> id, arg |-> arg, arg2 |-> arg2, n |-> n]
Line(id, arg, n) == Line2(id, arg, <<>>, n)
Fixed(id) == Line(id, <<>>, 0)

Built(lines) == [raised |-> FALSE, exc |-> "none", lines |-> lines]
Fail(e) == [raised |-> TRUE, exc |-> e, lines |-> <<>>]

(***************************************************************************)
(* construct_local_biz_caption_prompt(data)                                *)
(***************************************************************************)
LocalCtaLines(call_to_action) ==
    IF call_to_action # JStr(NoSpecificCta) /\ call_to_action # JStr(CustomCta)
    THEN <<Line("cta_like", CtaText(call_to_action.s), 0)>>
    ELSE IF call_to_action = JStr(CustomCta)
    THEN <<Fixed("cta_custom")>>
    ELSE <<>>

LocalEmojiLines(include_emojis) ==
    IF include_emojis THEN <<Fixed("emojis_include")>>
    ELSE <<Fixed("emojis_exclude")>>

\* Faulty variant: the truth value of the field instead of the comparison with 'on'.
IncludeEmojis_Truthy(data) == Truthy(data["includeEmojis"])

\* data.get('includeEmojis') == 'on'
IncludeEmojis(data) == GetOrNone(data, "includeEmojis") = JStr(On)

LocalInstructions(business_type) == <<
    Fixed("instructions"),
    Line("instr_tailor", PyStr(business_type), 0),
    Fixed("instr_platforms"),
    Fixed("instr_product"),
    Fixed("instr_offer"),
    Fixed("instr_weave_tone_and_cta"),
    Fixed("instr_distinct"),
    Fixed("instr_no_hashtags"),
    Fixed("instr_no_labels"),
    Fixed("instr_new_line") >>

construct_local_biz_caption_prompt(data) ==
    LET name0 == GetOrNone(data, "businessName")
        business_name == IF Truthy(name0) THEN name0 ELSE JStr(OurBusiness)
        business_type == Get(data, "businessType", JStr(LocalBusiness))
        post_raw == Get(data, "postType", JStr(GeneralAnnouncement))
        key_message == Get(data, "keyMessage", JStr(SomethingExciting))
        tone_raw == Get(data, "tone", JStr(FriendlyCasual))
        call_to_action == Get(data, "callToAction", JStr(NoSpecificCta))
        include_emojis == IncludeEmojis(data)
        num == PyInt(Get(data, "numVariations", JInt(3)))
        head == <<
            Fixed("role"),
            Line("generate", <<>>, num.n),
            Line("business_type", PyStr(business_type), 0),
            Line("tone", ReplaceUnderscore(tone_raw.s), 0),
            Line("purpose", ReplaceUnderscore(post_raw.s), 0),
            Line("key_message", PyStr(key_message), 0) >>
        name == IF business_name # JStr(OurBusiness)
                THEN <<Line("business_name", PyStr(business_name), 0)>>
                ELSE <<>>
    IN  IF post_raw.t # "str" THEN Fail("AttributeError")
        ELSE IF tone_raw.t # "str" THEN Fail("AttributeError")
        ELSE IF ~num.ok THEN Fail(num.exc)
        ELSE IF /\ call_to_action.t # "str"
                /\ call_to_action # JStr(NoSpecificCta)
                /\ call_to_action # JStr(CustomCta)
             THEN Fail("AttributeError")
        ELSE Built(head \o name \o LocalCtaLines(call_to_action)
                   \o LocalEmojiLines(include_emojis)
                   \o LocalInstructions(business_type))

(***************************************************************************)
(* construct_artisan_description_prompt(data)                              *)
(***************************************************************************)
ArtisanInstructions(product_category) == <<
    Fixed("instructions"),
    Line("instr_evocative", PyStr(product_category), 0),
    Fixed("instr_craftsmanship"),
    Fixed("instr_appeal"),
    Fixed("instr_shop_listing"),
    Fixed("instr_distinct"),
    Fixed("instr_no_labels"),
    Fixed("instr_new_line") >>

OptionalLine(id, value) == IF Truthy(value) THEN <<Line(id, PyStr(value), 0)>>
                           ELSE <<>>

construct_artisan_description_prompt(data) ==
    LET creator_name == GetOrNone(data, "creatorName")
        product_name == Get(data, "productName", JStr(ThisUniqueItem))
        product_category == Get(data, "productCategory", JStr(HandmadeProduct))
        key_materials == Get(data, "keyMaterials", JStr(QualityMaterials))
        creation_process == GetOrNone(data, "creationProcess")
        inspiration == GetOrNone(data, "inspiration")
        unique_selling_points == Get(data, "uniqueSellingPoints", JStr(ItIsSpecial))
        tone_raw == Get(data, "artisanTone", JStr(StoryDrivenEvocative))
        num == PyInt(Get(data, "numVariations", JInt(2)))
        head == <<
            Fixed("role"),
            Line("generate", <<>>, num.n),
            Line2("product", PyStr(product_name), PyStr(product_category), 0),
            Line("key_materials", PyStr(key_materials), 0),
            Line("tone", ReplaceUnderscore(tone_raw.s), 0),
            Line("unique_selling_points", PyStr(unique_selling_points), 0) >>
    IN  IF tone_raw.t # "str" THEN Fail("AttributeError")
        ELSE IF ~num.ok THEN Fail(num.exc)
        ELSE Built(head \o OptionalLine("creator_name", creator_name)
                   \o OptionalLine("creation_process", creation_process)
                   \o OptionalLine("inspiration", inspiration)
                   \o ArtisanInstructions(product_category))

(***************************************************************************)
(* The response of model.generate_content and its parsing                  *)
(*   candidates: per candidate the texts of its content.parts              *)
(*   text:       [kind, s], kind "missing" (no attribute), "none" or "str" *)
(*   feedback:   [kind, ratings], kind "missing", "none" or "obj"          *)
(***************************************************************************)
Response(candidates, text, feedback) ==
    [candidates |-> candidates, text |-> text, feedback |-> feedback]
Rating(category, probability) == [category |-> category, probability |-> probability]

\* response.candidates and response.candidates[0].content.parts
HasParts(response) ==
    response.candidates # <<>> /\ response.candidates[1] # <<>>

\* hasattr(response, 'text') and response.text
HasText(response) == response.text.kind = "str" /\ response.text.s # <<>>

\* generated_text of lines 148-155 and 203-214
GeneratedText(response) ==
    IF HasParts(response) THEN response.candidates[1][1]
    ELSE IF HasText(response) THEN response.text.s
    ELSE <<>>

\* Faulty variant: the top-level text is preferred to the first part.
ParsedVariations_TextFirst(response) ==
    IF HasText(response) THEN ParseLines(response.text.s)
    ELSE IF HasParts(response) THEN ParseLines(response.candidates[1][1])
    ELSE <<>>

\* captions / descriptions of lines 149-155 and 204-214
ParsedVariations(response) ==
    IF HasParts(response) THEN ParseLines(response.candidates[1][1])
    ELSE IF HasText(response) THEN ParseLines(response.text.s)
    ELSE <<>>

\* Faulty variant: the slice keeps one variation too many.
FinalVariations_OffByOne(variations, num_variations_requested) ==
    IF Len(variations) >= num_variations_requested
    THEN SliceTo(variations, num_variations_requested + 1)
    ELSE variations

\* final_captions / final_descriptions of lines 165-170 and 224-230
FinalVariations(variations, num_variations_requested) ==
    IF variations # <<>>
    THEN IF Len(variations) >= num_variations_requested
         THEN SliceTo(variations, num_variations_requested)
         ELSE variations
    ELSE <<>>

(***************************************************************************)
(* Replies: jsonify(...) and the status returned with it                   *)
(***************************************************************************)
Reply(status, key, msg, category, detail, items) ==
    [status |-> status, key |-> key, msg |-> msg, category |-> category,
     detail |-> detail, items |-> items]
NoReply == Reply(0, "none", "none", "none", "none", <<>>)
NotConfigured == Reply(500, "error", "not_configured", "none", "none", <<>>)
NoData == Reply(400, "error", "no_data", "none", "none", <<>>)
CouldNotGenerate == Reply(400, "error", "could_not_generate", "none", "none", <<>>)
SafetyBlocked(category) ==
    Reply(400, "error", "safety_blocked", category, "none", <<>>)
InternalError(e) == Reply(500, "error", "internal_error", "none", e, <<>>)
Success(key, items) == Reply(200, key, "none", "none", "none", items)
\* an exception leaving the view function
Unhandled(e) == Reply(0, "exception", "none", "none", e, <<>>)

Blocking(rating) ==
    /\ rating.category # "HARM_CATEGORY_UNSPECIFIED"
    /\ rating.probability \notin {"NEGLIGIBLE", "LOW"}

\* the for loop of lines 175-178 and 235-238
RECURSIVE ScanRatings(_)
ScanRatings(ratings) ==
    IF ratings = <<>> THEN CouldNotGenerate
    ELSE IF Blocking(Head(ratings)) THEN SafetyBlocked(Head(ratings).category)
    ELSE ScanRatings(Tail(ratings))

\* Faulty variant: the loop has no break, the last blocking rating wins.
RECURSIVE ScanRatings_NoBreak(_, _)
ScanRatings_NoBreak(ratings, found) ==
    IF ratings = <<>> THEN found
    ELSE IF Blocking(Head(ratings))
    THEN ScanRatings_NoBreak(Tail(ratings), SafetyBlocked(Head(ratings).category))
    ELSE ScanRatings_NoBreak(Tail(ratings), found)
EmptyResultReply_NoBreak(response) ==
    IF response.feedback.kind = "obj"
    THEN ScanRatings_NoBreak(response.feedback.ratings, CouldNotGenerate)
    ELSE CouldNotGenerate

\* lines 172-179 and 232-239
EmptyResultReply(response) ==
    IF response.feedback.kind = "obj" THEN ScanRatings(response.feedback.ratings)
    ELSE CouldNotGenerate

(***************************************************************************)
(* Request bodies, as request.get_json() delivers them                     *)
(*   kind "malformed": get_json raises; "null", "list": what it returns;   *)
(*   "dict": fields are the known keys, other says that further keys exist *)
(***************************************************************************)
Body(kind, fields, other, len) ==
    [kind |-> kind, fields |-> fields, other |-> other, len |-> len]
Dict(fields) == Body("dict", fields, FALSE, 0)

\* Faulty variant: "if data is None" in place of "if not data".
Falsy_NoneOnly(body) == body.kind = "null"

\* not data
Falsy(body) ==
    CASE body.kind = "null" -> TRUE
      [] body.kind = "list" -> body.len = 0
      [] body.kind = "dict" ->
            ~body.other /\ \A k \in Keys : body.fields[k].t = "absent"
      [] OTHER -> FALSE

\* what the call of generate_content did: raised msg, or returned response
Returned(response) == [kind |-> "returned", msg |-> "none", response |-> response]
Raised(msg) ==
    [kind |-> "raised", msg |-> msg,
     response |-> Response(<<>>, [kind |-> "missing", s |-> <<>>],
                           [kind |-> "missing", ratings |-> <<>>])]
NoCall == [kind |-> "nocall", msg |-> "none",
           response |-> Response(<<>>, [kind |-> "missing", s |-> <<>>],
                                 [kind |-> "missing", ratings |-> <<>>])]

\* The result of one run of a view function: the reply, the number of calls
\* of model.generate_content, and the locals the run computed.
Run(reply, calls, prompt, text, variations, final) ==
    [reply |-> reply, calls |-> calls, prompt |-> prompt,
     generated_text |-> text, variations |-> variations, final |-> final]
NoPrompt == Built(<<>>)

\* Faulty variant: the exception is not caught.
ExceptHandler_Reraise(e) == Unhandled(e)

\* except Exception as e: return jsonify({"error": ...}), 500
ExceptHandler(e) == InternalError(e)

\* The statements after model.generate_content(prompt) returned, lines
\* 148-180 and 203-242.
AfterGenerate(response, requested, key) ==
    LET variations == ParsedVariations(response)
        final == FinalVariations(variations, requested)
    IN  [reply |-> IF final = <<>> THEN EmptyResultReply(response)
                   ELSE Success(key, final),
         variations |-> variations, final |-> final]

\* The try block of a view function; built is the prompt builder's result
\* and dflt the default of numVariations.
TryBlock(body, built, dflt, key, outcome) ==
    IF body.kind = "malformed"
    THEN Run(ExceptHandler("BadRequest"), 0, NoPrompt, <<>>, <<>>, <<>>)
    ELSE IF Falsy(body)
    THEN Run(NoData, 0, NoPrompt, <<>>, <<>>, <<>>)
    ELSE IF body.kind # "dict"
    THEN Run(ExceptHandler("AttributeError"), 0, NoPrompt, <<>>, <<>>, <<>>)
    ELSE IF built.raised
    THEN Run(ExceptHandler(built.exc), 0, built, <<>>, <<>>, <<>>)
    ELSE IF outcome.kind = "raised"
    THEN Run(ExceptHandler(outcome.msg), 1, built, <<>>, <<>>, <<>>)
    ELSE LET requested == PyInt(Get(body.fields, "numVariations", JInt(dflt)))
             done == AfterGenerate(outcome.response, requested.n, key)
         IN  IF ~requested.ok
             THEN Run(ExceptHandler(requested.exc), 1, built,
                      GeneratedText(outcome.response),
                      ParsedVariations(outcome.response), <<>>)
             ELSE Run(done.reply, 1, built, GeneratedText(outcome.response),
                      done.variations, done.final)

\* Faulty variant: the check of model is missing.
Guarded_Missing(configured, run) == run

\* if not model: return jsonify({"error": ...}), 500
Guarded(configured, run) ==
    IF ~configured THEN Run(NotConfigured, 0, NoPrompt, <<>>, <<>>, <<>>)
    ELSE run

generate_local_biz_captions(configured, body, outcome) ==
    Guarded(configured,
            TryBlock(body, construct_local_biz_caption_prompt(body.fields),
                     3, "captions", outcome))

generate_artisan_description(configured, body, outcome) ==
    Guarded(configured,
            TryBlock(body, construct_artisan_description_prompt(body.fields),
                     2, "descriptions", outcome))

(***************************************************************************)
(* Inputs                                                                  *)
(***************************************************************************)
TextChars == {"a", " ", NL}
Texts == UNION {[1..n -> TextChars] : n \in 0..MaxLen}

Categories == {"HARM_CATEGORY_UNSPECIFIED", "HARM_CATEGORY_HATE_SPEECH",
               "HARM_CATEGORY_HARASSMENT"}
Probabilities == {"NEGLIGIBLE", "LOW", "MEDIUM", "HIGH"}
Ratings == {Rating(c, p) : c \in Categories, p \in Probabilities}
RatingLists == UNION {[1..n -> Ratings] : n \in 0..MaxRatings}

TextMissing == [kind |-> "missing", s |-> <<>>]
TextNone == [kind |-> "none", s |-> <<>>]
TextStr(s) == [kind |-> "str", s |-> s]
FeedbackMissing == [kind |-> "missing", ratings |-> <<>>]
FeedbackNone == [kind |-> "none", ratings |-> <<>>]
Feedback(ratings) == [kind |-> "obj", ratings |-> ratings]
Feedbacks == {FeedbackMissing, FeedbackNone} \cup {Feedback(r) : r \in RatingLists}

\* Responses whose first candidate has a first part with text t.
PrimaryResponses ==
    {Response(<< <<t>> >>, top, FeedbackMissing) :
        t \in Texts, top \in {TextMissing, TextStr(<<"a", "a">>)}}
    \cup {Response(c, TextMissing, FeedbackMissing) :
            c \in UNION {{<< <<t, <<"a", "a">>>> >>, << <<t>>, << <<"a", "a">> >> >>} :
                            t \in Texts}}
\* Responses without a first part: no candidate, or a candidate without parts.
FallbackResponses ==
    {Response(c, top, FeedbackMissing) :
        c \in {<<>>, << <<>> >>},
        top \in {TextMissing, TextNone} \cup {TextStr(t) : t \in Texts}}
\* Responses whose first part is blank while the top-level text is not.
BlankPrimaryResponses ==
    {Response(<< <<b>> >>, TextStr(t), FeedbackMissing) :
        b \in {<<>>, <<" ">>}, t \in Texts}
\* Responses with prompt feedback.
RatedResponses ==
    {Response(c, top, f) :
        c \in {<<>>, << <<>> >>, << << <<>> >> >>, << << <<"a">> >> >>},
        top \in {TextMissing, TextStr(<<>>)},
        f \in Feedbacks}
Responses == PrimaryResponses \cup FallbackResponses
             \cup BlankPrimaryResponses \cup RatedResponses

ExceptionMessages == {"quota exceeded", "deadline exceeded"}
Outcomes == {Raised(m) : m \in ExceptionMessages}
            \cup {Returned(r) : r \in Responses}

Str_2 == <<"2">>
Str_pad3 == <<" ", "3", " ">>
Str_x == <<"x">>
NumVariationsValues ==
    {Absent, JNull, JBool(TRUE), JStr(Str_2), JStr(Str_pad3), JStr(Str_x)}
    \cup {JInt(n) : n \in (0 - MaxCount)..MaxCount}

Str_new_product == <<"n","e","w","_","p","r","o","d","u","c","t">>
\* Bodies the two endpoints are posted.
Bodies ==
    {Body("malformed", NoFields, FALSE, 0), Body("null", NoFields, FALSE, 0),
     Body("list", NoFields, FALSE, 0), Body("list", NoFields, FALSE, 1),
     Body("dict", NoFields, FALSE, 0), Body("dict", NoFields, TRUE, 0)}
    \cup {Dict([NoFields EXCEPT !["numVariations"] = v]) :
            v \in NumVariationsValues}
    \cup {Dict([NoFields EXCEPT !["postType"] = v, !["artisanTone"] = v]) :
            v \in {JStr(Str_new_product), JNull}}

ApiKeys == {JNull, JStr(<<>>), JStr(<<"k">>)}

(***************************************************************************)
(* State                                                                   *)
(***************************************************************************)
VARIABLES
    model,          \* TRUE iff the module-level model is not None
    pc,             \* "idle", "replied" (serving), "build", "built" (builders)
    endpoint,       \* the view function or builder that ran last
    body,           \* the body of the request being answered
    outcome,        \* what model.generate_content did for this request
    prompt,         \* the prompt builder's result
    generated_text, \* the local generated_text
    variations,     \* the local captions / descriptions
    final,          \* the local final_captions / final_descriptions
    reply,          \* the reply returned
    calls           \* calls of model.generate_content for this request

vars == <<model, pc, endpoint, body, outcome, prompt, generated_text,
          variations, final, reply, calls>>

\* lines 13-21: model is set iff the key is there and configuring succeeds
ConfigureModel(api_key, configure_fails) == Truthy(api_key) /\ ~configure_fails

Init ==
    /\ \E k \in ApiKeys, f \in BOOLEAN : model = ConfigureModel(k, f)
    /\ pc = "idle"
    /\ endpoint = "none"
    /\ body = Body("null", NoFields, FALSE, 0)
    /\ outcome = NoCall
    /\ prompt = NoPrompt
    /\ generated_text = <<>>
    /\ variations = <<>>
    /\ final = <<>>
    /\ reply = NoReply
    /\ calls = 0

Serve(name, b, o, run) ==
    /\ pc' = "replied"
    /\ endpoint' = name
    /\ body' = b
    /\ outcome' = IF run.calls = 0 THEN NoCall ELSE o
    /\ prompt' = run.prompt
    /\ generated_text' = run.generated_text
    /\ variations' = run.variations
    /\ final' = run.final
    /\ reply' = run.reply
    /\ calls' = run.calls
    /\ UNCHANGED model

GenerateLocalBizCaptions ==
    /\ pc = "idle"
    /\ \E b \in Bodies, o \in Outcomes :
        Serve("generate_local_biz_captions", b, o,
              generate_local_biz_captions(model, b, o))

GenerateArtisanDescription ==
    /\ pc = "idle"
    /\ \E b \in Bodies, o \in Outcomes :
        Serve("generate_artisan_description", b, o,
              generate_artisan_description(model, b, o))

\* The reply is sent and the request's locals are gone.
NextRequest ==
    /\ pc = "replied"
    /\ pc' = "idle"
    /\ endpoint' = "none"
    /\ body' = Body("null", NoFields, FALSE, 0)
    /\ outcome' = NoCall
    /\ prompt' = NoPrompt
    /\ generated_text' = <<>>
    /\ variations' = <<>>
    /\ final' = <<>>
    /\ reply' = NoReply
    /\ calls' = 0
    /\ UNCHANGED model

Next == GenerateLocalBizCaptions \/ GenerateArtisanDescription \/ NextRequest

Spec == Init /\ [][Next]_vars

(***************************************************************************)
(* The prompt builders on their own: a field map is drawn, a builder is    *)
(* applied to it.                                                          *)
(***************************************************************************)
Str_Bo == <<"B","o">>
Str_cafe == <<"c","a","f","e">>
Str_hi == <<"h","i">>
Str_fun_bold == <<"f","u","n","_","b","o","l","d">>
Str_visit_us == <<"v","i","s","i","t","_","u","s">>
Str_learn_more == <<"l","e","a","r","n","_","m","o","r","e">>
Str_call_now == <<"c","a","l","l","_","n","o","w">>
Str_Visit_Us == <<"V","i","s","i","t","_","U","s">>
Str_rsvp == <<"R","S","V","P","_","b","y","_","f","r","i">>
Str_off == <<"o","f","f">>
Str_mug == <<"m","u","g">>
Str_pottery == <<"p","o","t","t","e","r","y">>
Str_clay == <<"c","l","a","y">>
Str_wheel == <<"w","h","e","e","l">>
Str_sea == <<"s","e","a">>
Str_sturdy == <<"s","t","u","r","d","y">>
Str_warm_cozy == <<"w","a","r","m","_","c","o","z","y">>

CallToActionValues ==
    {Absent, JStr(NoSpecificCta), JStr(CustomCta), JStr(Str_visit_us),
     JStr(Str_learn_more), JStr(Str_call_now), JStr(Str_Visit_Us),
     JStr(Str_rsvp), JStr(<<>>), JNull}
IncludeEmojisValues ==
    {Absent, JStr(On), JStr(Str_off), JBool(TRUE), JBool(FALSE)}
PromptCountValues == {Absent, JInt(1), JStr(Str_2), JStr(Str_x)}

LocalBizFields ==
    {[NoFields EXCEPT !["businessName"] = bn, !["businessType"] = bt,
                      !["postType"] = pt, !["keyMessage"] = km, !["tone"] = tn,
                      !["callToAction"] = cta, !["includeEmojis"] = em,
                      !["numVariations"] = nv] :
        bn \in {Absent, JStr(<<>>), JStr(Str_Bo)},
        bt \in {Absent, JStr(Str_cafe)},
        pt \in {Absent, JStr(Str_new_product), JNull},
        km \in {Absent, JStr(Str_hi)},
        tn \in {Absent, JStr(Str_fun_bold)},
        cta \in CallToActionValues,
        em \in IncludeEmojisValues,
        nv \in PromptCountValues}

ArtisanFields ==
    {[NoFields EXCEPT !["creatorName"] = cn, !["productName"] = pn,
                      !["productCategory"] = pcat, !["keyMaterials"] = km,
                      !["creationProcess"] = cp, !["inspiration"] = ins,
                      !["uniqueSellingPoints"] = usp, !["artisanTone"] = tn,
                      !["numVariations"] = nv] :
        cn \in {Absent, JStr(Str_Bo)},
        pn \in {Absent, JStr(Str_mug)},
        pcat \in {Absent, JStr(Str_pottery)},
        km \in {Absent, JStr(Str_clay)},
        cp \in {Absent, JStr(Str_wheel)},
        ins \in {Absent, JStr(Str_sea)},
        usp \in {Absent, JStr(Str_sturdy)},
        tn \in {Absent, JStr(Str_warm_cozy), JNull},
        nv \in PromptCountValues}

InitPrompt ==
    /\ \E k \in ApiKeys, f \in BOOLEAN : model = ConfigureModel(k, f)
    /\ pc = "build"
    /\ endpoint = "none"
    /\ body \in {Dict(f) : f \in LocalBizFields \cup ArtisanFields}
    /\ outcome = NoCall
    /\ prompt = NoPrompt
    /\ generated_text = <<>>
    /\ variations = <<>>
    /\ final = <<>>
    /\ reply = NoReply
    /\ calls = 0

ConstructLocalBizCaptionPrompt ==
    /\ pc = "build"
    /\ pc' = "built"
    /\ endpoint' = "construct_local_biz_caption_prompt"
    /\ prompt' = construct_local_biz_caption_prompt(body.fields)
    /\ UNCHANGED <<model, body, outcome, generated_text, variations, final,
                   reply, calls>>

ConstructArtisanDescriptionPrompt ==
    /\ pc = "build"
    /\ pc' = "built"
    /\ endpoint' = "construct_artisan_description_prompt"
    /\ prompt' = construct_artisan_description_prompt(body.fields)
    /\ UNCHANGED <<model, body, outcome, generated_text, variations, final,
                   reply, calls>>

NextPrompt == ConstructLocalBizCaptionPrompt \/ ConstructArtisanDescriptionPrompt

SpecPrompt == InitPrompt /\ [][NextPrompt]_vars

(***************************************************************************)
(* Properties of the two endpoints (specification Spec)                    *)
(***************************************************************************)
Replied == pc = "replied"
CallReturned == Replied /\ outcome.kind = "returned"

\* The count a request asks for: numVariations, or the endpoint's default.
AskedCount ==
    LET v == body.fields["numVariations"]
    IN  IF v.t = "absent"
        THEN (IF endpoint = "generate_local_biz_captions" THEN 3 ELSE 2)
        ELSE IF v.t \in {"int", "bool"} THEN v.n
        ELSE IF v = JStr(Str_2) THEN 2
        ELSE IF v = JStr(Str_pad3) THEN 3
        ELSE 0

\* The pieces of a text t between its newlines, by position: a piece starts
\* after position p, p being 0 or the position of a newline.
Cuts(t) == {0} \cup {i \in 1..Len(t) : t[i] = NL}
PieceEnd(t, p) == CHOOSE q \in (p + 1)..(Len(t) + 1) :
                      /\ q = Len(t) + 1 \/ t[q] = NL
                      /\ \A j \in (p + 1)..(q - 1) : t[j] # NL
Ink(t, p) == {i \in (p + 1)..(PieceEnd(t, p) - 1) : t[i] \notin {" ", "\t", "\r"}}
SetMin(S) == CHOOSE x \in S : \A y \in S : x <= y
SetMax(S) == CHOOSE x \in S : \A y \in S : x >= y
NonBlankStarts(t) == {p \in Cuts(t) : Ink(t, p) # {}}
TrimmedPiece(t, p) == SubSeq(t, SetMin(Ink(t, p)), SetMax(Ink(t, p)))
NthStart(t, i) == CHOOSE p \in NonBlankStarts(t) :
                      Cardinality({q \in NonBlankStarts(t) : q < p}) = i - 1
\* The first n trimmed non-blank pieces of t, in order.
FirstPieces(t, n) ==
    [i \in 1..Min(n, Cardinality(NonBlankStarts(t))) |->
        TrimmedPiece(t, NthStart(t, i))]

\* C1: a successful request asking for N >= 1 variations returns the first
\* min(N, k) of the k trimmed non-empty lines of the extracted text, in
\* order, unpadded and without an empty string.
C1_FirstMinNK ==
    (Replied /\ reply.status = 200 /\ AskedCount >= 1) =>
        /\ reply.items = FirstPieces(generated_text, AskedCount)
        /\ Len(reply.items) =
              Min(AskedCount, Cardinality(NonBlankStarts(generated_text)))
        /\ \A i \in 1..Len(reply.items) : reply.items[i] # <<>>

\* Three lines were generated and two were asked for.
C1_Witness ==
    /\ Replied /\ reply.status = 200 /\ AskedCount = 2
    /\ generated_text = <<"a", NL, "a", NL, "a">>
    /\ reply.items = << <<"a">>, <<"a">> >>

\* C2: the configured status never changes, and while the model is None a
\* request is answered 500 "not configured" without a call of generate_content.
C2_UnconfiguredForever ==
    /\ [][model' = model]_vars
    /\ [](~model => /\ calls = 0
                    /\ outcome.kind = "nocall"
                    /\ (Replied => reply = NotConfigured /\ reply.status = 500))

C2_Witness ==
    /\ ~model /\ Replied
    /\ body.kind = "dict" /\ body.fields["numVariations"] = JInt(2)
    /\ reply.msg = "not_configured"

MissingBody(b) ==
    \/ b.kind = "null"
    \/ b.kind = "list" /\ b.len = 0
    \/ b.kind = "dict" /\ ~b.other /\ b.fields = NoFields
InternalFault ==
    /\ model
    /\ \/ body.kind = "malformed"
       \/ body.kind = "list" /\ body.len > 0
       \/ prompt.raised
       \/ outcome.kind = "raised"
ContentRejected ==
    reply.status = 400 /\ reply.msg \in {"could_not_generate", "safety_blocked"}

\* C3 as claimed: a missing body is always a client error, an empty final
\* list is a client error, an unconfigured model or a fault a server error.
C3_AsClaimed ==
    Replied =>
        /\ MissingBody(body) => reply.status = 400 /\ reply.msg = "no_data"
        /\ (CallReturned /\ final = <<>>) => ContentRejected
        /\ (CallReturned /\ generated_text = <<>>) => ContentRejected
        /\ (~model \/ InternalFault) => reply.status = 500

\* C3: an unconfigured model answers every request, also one without a body,
\* with 500; with the model configured a missing body is a client error (400),
\* an empty final list is a client error (400) and a fault a server error.
C3_Classification ==
    Replied =>
        /\ ~model => reply.status = 500 /\ reply.msg = "not_configured"
        /\ (model /\ MissingBody(body)) =>
              reply.status = 400 /\ reply.msg = "no_data"
        /\ (CallReturned /\ final = <<>>) => ContentRejected
        /\ (CallReturned /\ generated_text = <<>>) => ContentRejected
        /\ InternalFault => reply.status = 500 /\ reply.msg = "internal_error"

C3_Witness ==
    /\ Replied /\ model /\ body = Dict(NoFields)
    /\ reply.status = 400 /\ reply.msg = "no_data"

\* The positions of the ratings that block: a category other than
\* unspecified with a probability above low.
BlockingAt(rs) ==
    {i \in 1..Len(rs) : /\ rs[i].category # "HARM_CATEGORY_UNSPECIFIED"
                        /\ rs[i].probability # "NEGLIGIBLE"
                        /\ rs[i].probability # "LOW"}
RatingsOf(response) ==
    IF response.feedback.kind = "obj" THEN response.feedback.ratings ELSE <<>>

\* C4: with an empty final list the message is the generic one unless some
\* rating blocks, and then it names the category of the first blocking rating.
C4_FirstBlockingRating ==
    (CallReturned /\ final = <<>>) =>
        LET rs == RatingsOf(outcome.response)
        IN  IF BlockingAt(rs) = {}
            THEN reply.status = 400 /\ reply.msg = "could_not_generate"
                 /\ reply.category = "none"
            ELSE reply.status = 400 /\ reply.msg = "safety_blocked"
                 /\ reply.category = rs[SetMin(BlockingAt(rs))].category

C4_Witness ==
    /\ CallReturned /\ final = <<>>
    /\ RatingsOf(outcome.response) =
          <<Rating("HARM_CATEGORY_HARASSMENT", "HIGH"),
            Rating("HARM_CATEGORY_HATE_SPEECH", "MEDIUM")>>
    /\ reply.category = "HARM_CATEGORY_HARASSMENT"

\* C5: the count announced in the prompt and used to truncate is at least
\* 1, and a returned list is never longer than the numVariations asked for.
C5_PositiveCount ==
    (Replied /\ calls = 1) =>
        /\ prompt.lines[2].id = "generate" /\ prompt.lines[2].n >= 1
        /\ AskedCount >= 1
        /\ reply.status = 200 => Len(reply.items) <= AskedCount

\* C8: when generate_content raises, the reply is the 500 internal error
\* with the exception's message, after exactly one call, and nothing
\* propagates out of the view function.
C8_RemoteFailure ==
    (Replied /\ outcome.kind = "raised") =>
        /\ reply.status = 500 /\ reply.key = "error"
        /\ reply.msg = "internal_error" /\ reply.detail = outcome.msg
        /\ calls = 1

C8_Witness ==
    /\ Replied /\ model /\ outcome = Raised("quota exceeded")
    /\ reply.detail = "quota exceeded" /\ calls = 1

HasFirstPart(response) ==
    Len(response.candidates) >= 1 /\ Len(response.candidates[1]) >= 1
AllPartsEmpty(response) ==
    \A c \in 1..Len(response.candidates) :
        \A q \in 1..Len(response.candidates[c]) : response.candidates[c][q] = <<>>
TopText(response) ==
    IF response.text.kind = "str" THEN response.text.s ELSE <<>>
ExpectedText(response) ==
    IF HasFirstPart(response) THEN response.candidates[1][1]
    ELSE TopText(response)

\* C10 as claimed: first part, else top-level text, else empty; a response
\* whose only non-empty text is the top-level text yields variations, one
\* with neither yields none.
C10_AsClaimed ==
    CallReturned =>
        LET r == outcome.response
        IN  /\ generated_text = ExpectedText(r)
            /\ (AllPartsEmpty(r) /\ TopText(r) # <<>>) => variations # <<>>
            /\ (~HasFirstPart(r) /\ TopText(r) = <<>>) =>
                  variations = <<>> /\ final = <<>>

\* C10: the text of the first part is used whenever there is a first part,
\* also an empty one; only without a first part the top-level text is used,
\* and it yields variations iff it has a non-blank line; neither yields none.
C10_Extraction ==
    CallReturned =>
        LET r == outcome.response
            t == ExpectedText(r)
        IN  /\ generated_text = t
            /\ variations = FirstPieces(t, Len(t) + 1)
            /\ (~HasFirstPart(r) /\ NonBlankStarts(TopText(r)) # {}) =>
                  variations # <<>>
            /\ (~HasFirstPart(r) /\ TopText(r) = <<>>) =>
                  variations = <<>> /\ final = <<>> /\ reply.status = 400

C10_Witness ==
    /\ CallReturned /\ outcome.response.candidates = <<>>
    /\ outcome.response.text = TextStr(<<"a", NL, "a", "a">>)
    /\ variations = << <<"a">>, <<"a", "a">> >>

(***************************************************************************)
(* Properties of the prompt builders (specification SpecPrompt)            *)
(***************************************************************************)
Built_ == pc = "built"
BuiltLocal == Built_ /\ endpoint = "construct_local_biz_caption_prompt"
BuiltArtisan == Built_ /\ endpoint = "construct_artisan_description_prompt"
Missing(key) == body.fields[key].t = "absent"

StringKeys == Keys \ {"includeEmojis", "numVariations"}
\* Every field that was sent has the type of its form field.
WellTyped(fields) ==
    /\ \A k \in StringKeys : fields[k].t \in {"absent", "str"}
    /\ \/ fields["numVariations"].t \in {"absent", "int"}
       \/ fields["numVariations"] = JStr(Str_2)

HasLine(id, arg) ==
    \E i \in 1..Len(prompt.lines) :
        prompt.lines[i].id = id /\ prompt.lines[i].arg = arg
HasLineId(id) == \E i \in 1..Len(prompt.lines) : prompt.lines[i].id = id
CountAnnounced == prompt.lines[2].n

LocalDefaultsApplied ==
    /\ Missing("businessType") => HasLine("business_type", LocalBusiness)
    /\ Missing("postType") => HasLine("purpose", GeneralAnnouncement)
    /\ Missing("keyMessage") => HasLine("key_message", SomethingExciting)
    /\ Missing("tone") => HasLine("tone", FriendlyCasual)
    /\ Missing("numVariations") => CountAnnounced = 3
    /\ Missing("businessName") => ~HasLineId("business_name")
    /\ Missing("callToAction") => ~HasLineId("cta_like") /\ ~HasLineId("cta_custom")
    /\ Missing("includeEmojis") => HasLineId("emojis_exclude")

ArtisanDefaultsApplied ==
    /\ Missing("productName") => HasLine("product", ThisUniqueItem)
    /\ Missing("productCategory") =>
          \E i \in 1..Len(prompt.lines) :
              prompt.lines[i].id = "product" /\ prompt.lines[i].arg2 = HandmadeProduct
    /\ Missing("keyMaterials") => HasLine("key_materials", QualityMaterials)
    /\ Missing("uniqueSellingPoints") => HasLine("unique_selling_points", ItIsSpecial)
    /\ Missing("artisanTone") =>
          HasLine("tone", <<"s","t","o","r","y"," ","d","r","i","v","e","n"," ",
                           "e","v","o","c","a","t","i","v","e">>)
    /\ Missing("numVariations") => CountAnnounced = 2
    /\ Missing("creatorName") => ~HasLineId("creator_name")
    /\ Missing("creationProcess") => ~HasLineId("creation_process")
    /\ Missing("inspiration") => ~HasLineId("inspiration")

IsCtaLine(line) == line.id \in {"cta_like", "cta_custom"}
CtaLines == SelectSeq(prompt.lines, IsCtaLine)
CtaCode == IF Missing("callToAction") THEN NoSpecificCta
           ELSE body.fields["callToAction"].s
TableCodes == {cta_text_map[i][1] : i \in 1..Len(cta_text_map)}
IsLetter(c) == IsLower(c) \/ IsUpper(c)
\* out is code title-cased, underscores as spaces, followed by "!".
TitleCasedWithBang(code, out) ==
    /\ Len(out) = Len(code) + 1 /\ out[Len(out)] = "!"
    /\ \A i \in 1..Len(code) :
          /\ code[i] = "_" => out[i] = " "
          /\ IsLetter(code[i]) =>
                /\ ToLower(out[i]) = ToLower(code[i])
                /\ IsUpper(out[i]) <=> (i = 1 \/ ~IsLetter(code[i - 1]))
          /\ (code[i] # "_" /\ ~IsLetter(code[i])) => out[i] = code[i]

\* C7: the call-to-action sentence of the local-business prompt is the
\* table's phrase for a code of the table, the title-cased code with "!" for
\* another code, the inference instruction for custom_cta, and absent for
\* "no specific cta" or a missing field; never more than one of them.
C7_CallToAction ==
    (BuiltLocal /\ ~prompt.raised) =>
        /\ Len(CtaLines) <= 1
        /\ CtaCode = NoSpecificCta <=> CtaLines = <<>>
        /\ CtaCode = CustomCta <=> CtaLines = <<Fixed("cta_custom")>>
        /\ CtaCode = Str_visit_us =>
              CtaLines = <<Line("cta_like",
                  <<"V","i","s","i","t"," ","U","s"," ","T","o","d","a","y","!">>, 0)>>
        /\ CtaCode \in TableCodes =>
              /\ Len(CtaLines) = 1 /\ CtaLines[1].id = "cta_like"
              /\ \E i \in 1..Len(cta_text_map) :
                    cta_text_map[i] = <<CtaCode, CtaLines[1].arg>>
        /\ CtaCode \notin TableCodes \cup {NoSpecificCta, CustomCta} =>
              /\ Len(CtaLines) = 1 /\ CtaLines[1].id = "cta_like"
              /\ TitleCasedWithBang(CtaCode, CtaLines[1].arg)

C7_Witness ==
    /\ BuiltLocal /\ ~prompt.raised /\ CtaCode = Str_rsvp
    /\ CtaLines = <<Line("cta_like",
          <<"R","s","v","p"," ","B","y"," ","F","r","i","!">>, 0)>>

EmojiLines ==
    SelectSeq(prompt.lines, LAMBDA l : l.id \in {"emojis_include", "emojis_exclude"})

\* C9 as claimed: exactly one emoji instruction, the including one when the
\* boolean flag is true, the excluding one when it is false or absent.
C9_AsClaimed ==
    (BuiltLocal /\ ~prompt.raised) =>
        /\ Len(EmojiLines) = 1
        /\ body.fields["includeEmojis"] = JBool(TRUE) =>
              EmojiLines[1].id = "emojis_include"
        /\ (body.fields["includeEmojis"] = JBool(FALSE) \/ Missing("includeEmojis")) =>
              EmojiLines[1].id = "emojis_exclude"

\* C9: exactly one emoji instruction, the including one when includeEmojis
\* is the string 'on', the excluding one for every other value, the booleans
\* true and false among them, and when the field is absent.
C9_EmojiInstruction ==
    (BuiltLocal /\ ~prompt.raised) =>
        /\ Len(EmojiLines) = 1
        /\ EmojiLines[1].id = "emojis_include" <=>
              (~Missing("includeEmojis")
               /\ body.fields["includeEmojis"].t = "str"
               /\ body.fields["includeEmojis"].s = <<"o", "n">>)
        /\ EmojiLines[1].id = "emojis_exclude" <=>
              (\/ Missing("includeEmojis")
               \/ body.fields["includeEmojis"].t # "str"
               \/ body.fields["includeEmojis"].s # <<"o", "n">>)

C9_Witness ==
    /\ BuiltLocal /\ ~prompt.raised
    /\ body.fields["includeEmojis"] = JBool(TRUE)
    /\ HasLineId("emojis_exclude") /\ ~HasLineId("emojis_include")

====
